---- MODULE Spec2Model ----
(***************************************************************************)
(* Model of the AI_Image_Colorizer Flask application: the colorizer        *)
(* pipeline of app.py (colour conversions, tensor preparation, the call    *)
(* into the network, merge and quantisation) and the request handlers      *)
(* around it (signup, login, logout, upload, delete) with the SQLite       *)
(* tables of database.py.                                                  *)
(*                                                                         *)
(* Numbers: 8-bit pixels are integers 0..255; float32 RGB is fixed point   *)
(* in units of 1/Unit; LAB values are fixed point in hundredths.           *)
(***************************************************************************)
EXTENDS Integers, Sequences, FiniteSets, TLC

\* ---------------------------------------------------------------- bounds
\* Largest height and width of a test image.
MaxDim == 2
\* Number of pixel patterns a test image is filled with.
NumPatterns == 2

\* ------------------------------------------------------ program constants
\* cv2.resize(lab, (224, 224)): side of the network's input tensor.
NetSize == 224
\* L -= 50: the mean shift, in hundredths of an L unit.
MeanShift == 5000
\* img.astype("float32") / 255.0 and 255 * colorized: the 8-bit range.
MaxByte == 255
\* Fixed-point unit of a float32 colour value (1.0 == Unit).
Unit == 10000

\* ------------------------------------------------------------ arrays
\* A numpy array: its shape ((h, w) or (h, w, c)) and, per pixel position,
\* the sequence of its channel values.
NoArray == [shape |-> <<>>, px |-> <<>>]

Height(a) == a.shape[1]

Width(a) == a.shape[2]

\* OpenCV's channel count of a numpy array: a 2-D array has one channel.
Channels(a) == IF Len(a.shape) = 2 THEN 1 ELSE a.shape[3]

Empty(a) == Height(a) = 0 \/ Width(a) = 0 \/ Channels(a) = 0

Grid(h, w) == (1..h) \X (1..w)

Ok(a) == [ok |-> TRUE, val |-> a]

Raised == [ok |-> FALSE, val |-> NoArray]

\* ------------------------------------------------- cv2.cvtColor, 8-bit
\* OpenCV's fixed-point BGR -> gray weights (0.114, 0.587, 0.299 scaled by
\* 2^YuvShift); they sum to 2^YuvShift.
B2Y == 1868

G2Y == 9617

R2Y == 4899

YuvShift == 14

GrayOf(p) == (p[1] * B2Y + p[2] * G2Y + p[3] * R2Y + 2^(YuvShift - 1)) \div 2^YuvShift

\* cv2.cvtColor(img, cv2.COLOR_BGR2GRAY): needs a non-empty source with 3 or
\* 4 channels (BGR or BGRA), else cv2.error; yields a 2-D array.
BGR2GRAY(a) ==
    IF Empty(a) \/ Channels(a) \notin {3, 4}
    THEN Raised
    ELSE Ok([shape |-> <<Height(a), Width(a)>>,
             px |-> [p \in Grid(Height(a), Width(a)) |-> <<GrayOf(a.px[p])>>]])

\* cv2.cvtColor(img, cv2.COLOR_GRAY2RGB): needs a non-empty single-channel
\* source, else cv2.error; replicates the gray value into three channels.
GRAY2RGB(a) ==
    IF Empty(a) \/ Channels(a) # 1
    THEN Raised
    ELSE Ok([shape |-> <<Height(a), Width(a), 3>>,
             px |-> [p \in Grid(Height(a), Width(a)) |->
                        <<a.px[p][1], a.px[p][1], a.px[p][1]>>]])

\* img.astype("float32") / 255.0
Scaled(a) ==
    [shape |-> a.shape,
     px |-> [p \in Grid(Height(a), Width(a)) |->
                [c \in 1..Channels(a) |-> (a.px[p][c] * Unit) \div MaxByte]]]

\* The 8-bit level a scaled value came from.
Level(s) == (s * MaxByte + Unit \div 2) \div Unit

\* --------------------------------------------- cv2.cvtColor, float RGB/LAB
\* L (in hundredths) of the gray of each 8-bit level g, at index g + 1:
\* L = 116 f(Y) - 16 with Y the sRGB-linearised g / 255 (CIE, D65).
LTable ==
    << 0, 27, 55, 82, 110, 137, 165, 192, 219, 247, 274, 302, 332, 364, 397, 431,
       468, 506, 546, 588, 632, 677, 725, 774, 825, 876, 926, 977, 1027, 1077, 1126, 1176,
       1225, 1274, 1323, 1371, 1420, 1468, 1516, 1564, 1611, 1659, 1706, 1753, 1800, 1847, 1894, 1940,
       1987, 2033, 2079, 2125, 2170, 2216, 2262, 2307, 2352, 2397, 2442, 2487, 2532, 2576, 2621, 2665,
       2709, 2753, 2797, 2841, 2885, 2929, 2972, 3016, 3059, 3103, 3146, 3189, 3232, 3275, 3318, 3360,
       3403, 3445, 3488, 3530, 3572, 3615, 3657, 3699, 3741, 3782, 3824, 3866, 3907, 3949, 3990, 4032,
       4073, 4114, 4155, 4196, 4237, 4278, 4319, 4360, 4401, 4441, 4482, 4522, 4563, 4603, 4644, 4684,
       4724, 4764, 4804, 4844, 4884, 4924, 4964, 5003, 5043, 5083, 5122, 5162, 5201, 5241, 5280, 5319,
       5359, 5398, 5437, 5476, 5515, 5554, 5593, 5632, 5670, 5709, 5748, 5786, 5825, 5864, 5902, 5940,
       5979, 6017, 6056, 6094, 6132, 6170, 6208, 6246, 6284, 6322, 6360, 6398, 6436, 6474, 6511, 6549,
       6587, 6624, 6662, 6699, 6737, 6774, 6812, 6849, 6887, 6924, 6961, 6998, 7035, 7072, 7110, 7147,
       7184, 7221, 7257, 7294, 7331, 7368, 7405, 7442, 7478, 7515, 7551, 7588, 7625, 7661, 7698, 7734,
       7770, 7807, 7843, 7879, 7916, 7952, 7988, 8024, 8060, 8097, 8133, 8169, 8205, 8241, 8276, 8312,
       8348, 8384, 8420, 8456, 8491, 8527, 8563, 8598, 8634, 8670, 8705, 8741, 8776, 8812, 8847, 8882,
       8918, 8953, 8988, 9024, 9059, 9094, 9129, 9164, 9200, 9235, 9270, 9305, 9340, 9375, 9410, 9445,
       9480, 9515, 9549, 9584, 9619, 9654, 9688, 9723, 9758, 9793, 9827, 9862, 9896, 9931, 9965, 10000 >>

\* cv2.cvtColor(scaled, cv2.COLOR_RGB2LAB) on one pixel. Every pixel that
\* reaches it comes out of GRAY2RGB, so R = G = B, the chrominance is 0 and
\* L is the L of that gray.
RGB2LABPixel(p) == <<LTable[Level(p[1]) + 1], 0, 0>>

RGB2LAB(a) ==
    [shape |-> a.shape,
     px |-> [p \in Grid(Height(a), Width(a)) |-> RGB2LABPixel(a.px[p])]]

\* sRGB gamma encoding of a linear value k / 100 (k = 0..200), in 1/Unit, at
\* index k + 1: 1.055 c^(1/2.4) - 0.055.
GammaKnots ==
    << 0, 999, 1517, 1897, 2209, 2478, 2717, 2934, 3133, 3318, 3492, 3656, 3811, 3959, 4100, 4236,
       4366, 4492, 4614, 4731, 4845, 4956, 5064, 5169, 5271, 5371, 5469, 5564, 5657, 5749, 5838, 5926,
       6012, 6097, 6180, 6262, 6343, 6422, 6500, 6576, 6652, 6726, 6800, 6872, 6944, 7014, 7084, 7152,
       7220, 7287, 7354, 7419, 7484, 7548, 7611, 7674, 7736, 7797, 7858, 7918, 7977, 8036, 8095, 8153,
       8210, 8267, 8323, 8379, 8434, 8489, 8543, 8597, 8650, 8703, 8756, 8808, 8860, 8911, 8962, 9013,
       9063, 9113, 9163, 9212, 9261, 9309, 9357, 9405, 9453, 9500, 9547, 9593, 9640, 9686, 9731, 9777,
       9822, 9867, 9912, 9956, 10000, 10044, 10087, 10131, 10174, 10217, 10259, 10302, 10344, 10386, 10427, 10469,
       10510, 10551, 10592, 10633, 10673, 10713, 10753, 10793, 10833, 10872, 10911, 10950, 10989, 11028, 11066, 11105,
       11143, 11181, 11219, 11256, 11294, 11331, 11368, 11405, 11442, 11479, 11515, 11552, 11588, 11624, 11660, 11695,
       11731, 11767, 11802, 11837, 11872, 11907, 11942, 11976, 12011, 12045, 12079, 12114, 12148, 12181, 12215, 12249,
       12282, 12316, 12349, 12382, 12415, 12448, 12481, 12513, 12546, 12578, 12611, 12643, 12675, 12707, 12739, 12770,
       12802, 12834, 12865, 12896, 12928, 12959, 12990, 13021, 13052, 13082, 13113, 13144, 13174, 13205, 13235, 13265,
       13295, 13325, 13355, 13385, 13415, 13444, 13474, 13503, 13533 >>

\* t^3 for t in 1/Unit.
Cube(t) == (((t * t) \div Unit) * t) \div Unit

\* The inverse of the CIE f: t^3 above 6/29, the linear branch below.
FInv(t) == IF t > 2069 THEN Cube(t) ELSE ((t - 1379) * Unit) \div 77870

\* sRGB gamma of a linear value c in 1/Unit: 12.92 c near 0, the power law
\* (interpolated between the knots) above; the conversion does not clip.
GammaEncode(c) ==
    IF c <= 31 THEN (1292 * c) \div 100
    ELSE IF c < 100 THEN 400 + ((c - 31) * 599) \div 69
    ELSE IF c >= 2 * Unit THEN GammaKnots[Len(GammaKnots)]
    ELSE LET k == c \div 100
             f == c - 100 * k
         IN  (GammaKnots[k + 1] * (100 - f) + GammaKnots[k + 2] * f) \div 100

\* cv2.cvtColor(colorized, cv2.COLOR_LAB2RGB) on one pixel <<L, a, b>> in
\* hundredths; the result is in 1/Unit and may lie outside [0, Unit].
LAB2RGBPixel(p) ==
    LET fy == ((p[1] + 1600) * 100) \div 116
        fx == fy + p[2] \div 5
        fz == fy - p[3] \div 2
        X  == (9505 * FInv(fx)) \div Unit
        Y  == FInv(fy)
        Z  == (10888 * FInv(fz)) \div Unit
        R  == (32405 * X - 15371 * Y - 4985 * Z) \div Unit
        G  == (-9693 * X + 18760 * Y + 416 * Z) \div Unit
        B  == (556 * X - 2040 * Y + 10573 * Z) \div Unit
    IN  <<GammaEncode(R), GammaEncode(G), GammaEncode(B)>>

LAB2RGB(a) ==
    [shape |-> a.shape,
     px |-> [p \in Grid(Height(a), Width(a)) |-> LAB2RGBPixel(a.px[p])]]

\* ------------------------------------------------------------ cv2.resize
\* Bilinear interpolation (INTER_LINEAR): destination index d (1-based) of
\* dstN maps to the source coordinate ((2d - 1) srcN - dstN) / (2 dstN),
\* clamped to the source; i is the 0-based left neighbour, f / (2 dstN) the
\* weight of the right one.
SrcCoord(d, srcN, dstN) ==
    LET num == (2 * d - 1) * srcN - dstN
        den == 2 * dstN
        i0  == num \div den
    IN  IF num < 0 THEN [i |-> 0, f |-> 0]
        ELSE IF i0 >= srcN - 1 THEN [i |-> srcN - 1, f |-> 0]
        ELSE [i |-> i0, f |-> num - i0 * den]

Lerp(v0, v1, f, den) == (v0 * (den - f) + v1 * f) \div den

\* The value of channel c at destination pixel <<y, x>> of a resized to
\* dh rows and dw columns.
ResizeAt(a, dh, dw, y, x, c) ==
    LET sy == SrcCoord(y, Height(a), dh)
        sx == SrcCoord(x, Width(a), dw)
        y0 == sy.i + 1
        y1 == IF sy.f = 0 THEN y0 ELSE y0 + 1
        x0 == sx.i + 1
        x1 == IF sx.f = 0 THEN x0 ELSE x0 + 1
        top == Lerp(a.px[<<y0, x0>>][c], a.px[<<y0, x1>>][c], sx.f, 2 * dw)
        bot == Lerp(a.px[<<y1, x0>>][c], a.px[<<y1, x1>>][c], sx.f, 2 * dw)
    IN  Lerp(top, bot, sy.f, 2 * dh)

\* cv2.resize(a, (dw, dh)): raises on an empty source or target, else an
\* array of dh rows and dw columns with a's channels.
Resize(a, dw, dh) ==
    IF Empty(a) \/ dw < 1 \/ dh < 1
    THEN Raised
    ELSE Ok([shape |-> <<dh, dw, Channels(a)>>,
             px |-> [p \in Grid(dh, dw) |->
                        [c \in 1..Channels(a) |-> ResizeAt(a, dh, dw, p[1], p[2], c)]]])

\* cv2.split(a)[0]: a fresh 2-D array holding channel 0.
SplitFirst(a) ==
    [shape |-> <<Height(a), Width(a)>>,
     px |-> [p \in Grid(Height(a), Width(a)) |-> <<a.px[p][1]>>]]

\* L -= 50, in place on the array L names.
Shift(a) ==
    [shape |-> a.shape,
     px |-> [p \in Grid(Height(a), Width(a)) |-> <<a.px[p][1] - MeanShift>>]]

\* ------------------------------------------------------------- the network
\* The module-level net: None when loading failed at startup, else the
\* loaded network with its weights and the input blob of the last setInput.
\* The network is opaque to the program; the model runs it with one of a few
\* stand-in predictors, fixed when the model is loaded:
\*   "const"   predicts one strong chrominance everywhere,
\*   "follow"  predicts a chrominance that depends on the input blob,
\*   "raises"  fails on every forward().
Weights == {"const", "follow", "raises"}

\* The positions of the blob the stand-in predictors read (its corners and
\* its centre); setInput keeps the blob at these positions.
Receptive ==
    {<<1, 1>>, <<1, NetSize>>, <<NetSize, 1>>, <<NetSize, NetSize>>,
     <<NetSize \div 2, NetSize \div 2>>}

NoBlob == <<>>

\* net.setInput(cv2.dnn.blobFromImage(L)): the blob the network now holds.
SetInput(L) == [q \in Receptive |-> L.px[q][1]]

\* The corner of the blob nearest to position p.
NearestCorner(p) ==
    <<IF 2 * p[1] <= NetSize THEN 1 ELSE NetSize,
      IF 2 * p[2] <= NetSize THEN 1 ELSE NetSize>>

\* net.forward()[0, :, :, :].transpose((1, 2, 0)): the chrominance the
\* network predicts from the blob it holds, NetSize x NetSize x 2.
Forward(weights, blob) ==
    IF weights = "raises" \/ blob = NoBlob
    THEN Raised
    ELSE Ok([shape |-> <<NetSize, NetSize, 2>>,
             px |-> [p \in Grid(NetSize, NetSize) |->
                      IF weights = "const"
                      THEN <<8000, -10000>>
                      ELSE <<2 * blob[NearestCorner(p)],
                             -blob[<<NetSize \div 2, NetSize \div 2>>]>>]])

\* -------------------------------------------------------------- the merge
\* np.concatenate((L[:, :, np.newaxis], ab), axis=2): raises ValueError
\* unless L and ab have the same height and width.
Concatenate(L, ab) ==
    IF Height(L) # Height(ab) \/ Width(L) # Width(ab)
    THEN Raised
    ELSE Ok([shape |-> <<Height(L), Width(L), 1 + Channels(ab)>>,
             px |-> [p \in Grid(Height(L), Width(L)) |-> L.px[p] \o ab.px[p]]])

\* A variant of Clip that leaves the element as it is: the merge without
\* its np.clip line.
NoClip(v) == v

\* np.clip(v, 0, 1) on one element.
Clip(v) == IF v < 0 THEN 0 ELSE IF v > Unit THEN Unit ELSE v

\* (255 * v).astype("uint8") on one clipped element: the cast drops the
\* fraction and keeps the low 8 bits.
ToUint8(v) == ((MaxByte * v) \div Unit) % (MaxByte + 1)

Quantize(a) ==
    [shape |-> a.shape,
     px |-> [p \in Grid(Height(a), Width(a)) |->
                [c \in 1..Channels(a) |-> ToUint8(Clip(a.px[p][c]))]]]

\* A variant of MergeL in which the in-place shift reaches the L of lab, as
\* it would if the tensor shared its memory with lab.
MergeLShifted(lab, tensor) == Shift(SplitFirst(lab))

\* The L channel the merge uses: L = cv2.split(lab)[0], taken again from the
\* full-resolution lab (the shifted tensor was a separate array).
MergeL(lab, tensor) == SplitFirst(lab)

\* The size cv2.resize is given for ab: (img.shape[1], img.shape[0]), that
\* is (width, height) of the RGB image.
AbSize(rgb) == <<rgb.shape[2], rgb.shape[1]>>

\* -------------------------------------------------------------- colorizer
NoExc == [type |-> "none", at |-> "none"]

\* What a call of colorizer leaves behind: the exception it raised (or
\* NoExc), the steps it entered, the blob the network holds afterwards, and
\* its local arrays lab, colorized before the conversion (merged), after the
\* conversion (rgbf), and the returned image (out).
Result(exc, steps, input, lab, merged, rgbf, out) ==
    [exc |-> exc, steps |-> steps, input |-> input, lab |-> lab,
     merged |-> merged, rgbf |-> rgbf, out |-> out]

\* A variant of Reraise without the raise: the except clause logs the
\* exception and colorizer returns None.
Swallow(type, at, steps, input) ==
    Result(NoExc, steps, input, NoArray, NoArray, NoArray, NoArray)

\* The except clause: print, traceback.print_exc(), raise. The exception
\* raised inside the try block leaves colorizer unchanged and nothing is
\* returned.
Reraise(type, at, steps, input) ==
    Result([type |-> type, at |-> at], steps, input, NoArray, NoArray, NoArray, NoArray)

\* The steps entered once the tensor is prepared.
PrepSteps == <<"GRAY2RGB", "astype", "RGB2LAB", "resize", "split", "shift">>

\* A variant of ForwardInput for forward() running before setInput: on the
\* blob the network held before this call.
StaleInput(held, fresh) == held

\* The blob forward() runs on: setInput comes first, so it is the blob of
\* this call (fresh) and not the one the network held before (held).
ForwardInput(held, fresh) == fresh

\* The network, as colorizer finds it.
TheNet(loaded, weights, input) == [loaded |-> loaded, weights |-> weights, input |-> input]

\* The part of colorizer from RGB2LAB on: tensor preparation, prediction,
\* merge and quantisation of the RGB image rgb.
Predict(rgb, pre, net) ==
    LET lab     == RGB2LAB(Scaled(rgb))
        resized == Resize(lab, NetSize, NetSize)
        tensor  == Shift(SplitFirst(resized.val))
        entered == pre \o PrepSteps
        input   == SetInput(tensor)
        fwd     == Forward(net.weights, ForwardInput(net.input, input))
        ab      == Resize(fwd.val, AbSize(rgb)[1], AbSize(rgb)[2])
        merged  == Concatenate(MergeL(lab, tensor), ab.val)
        rgbf    == LAB2RGB(merged.val)
    IN  IF ~resized.ok
        THEN Reraise("cv2.error", "resize", pre \o <<"GRAY2RGB", "astype", "RGB2LAB", "resize">>,
                     net.input)
        ELSE IF ~net.loaded
        THEN Reraise("AttributeError", "setInput", entered \o <<"setInput">>, net.input)
        ELSE IF ~fwd.ok
        THEN Reraise("cv2.error", "forward", entered \o <<"setInput", "forward">>, input)
        ELSE IF ~ab.ok
        THEN Reraise("cv2.error", "resize_ab",
                     entered \o <<"setInput", "forward", "resize_ab">>, input)
        ELSE IF ~merged.ok
        THEN Reraise("ValueError", "concatenate",
                     entered \o <<"setInput", "forward", "resize_ab", "split", "concatenate">>,
                     input)
        ELSE Result(NoExc,
                    entered \o <<"setInput", "forward", "resize_ab", "split", "concatenate",
                                 "LAB2RGB", "clip", "uint8">>,
                    input, lab, merged.val, rgbf, Quantize(rgbf))

\* colorizer(img) run against the network net.
colorizer(img, net) ==
    LET gray == IF Len(img.shape) = 3 THEN BGR2GRAY(img) ELSE Ok(img)
        pre  == IF Len(img.shape) = 3 THEN <<"BGR2GRAY">> ELSE <<>>
        rgb  == GRAY2RGB(gray.val)
    IN  IF ~gray.ok THEN Reraise("cv2.error", "BGR2GRAY", pre, net.input)
        ELSE IF ~rgb.ok THEN Reraise("cv2.error", "GRAY2RGB", pre \o <<"GRAY2RGB">>, net.input)
        ELSE Predict(rgb.val, pre, net)

\* ------------------------------------------------------------ test images
\* The pixel colours the test images are drawn from, as <<B, G, R, A>>; the
\* first c values are the pixel of a c-channel image.
Colors ==
    << <<0, 0, 0, 255>>, <<255, 255, 255, 255>>, <<30, 200, 90, 128>>, <<97, 97, 97, 0>>,
       <<200, 16, 240, 255>> >>

\* The colour pattern k puts at position p of an image w wide.
ColorAt(k, p, w) == Colors[((k * p[1] + (p[2] - 1) * (k + 1) + k) % Len(Colors)) + 1]

\* The h x w image with pattern k: 2-D when ndim = 2, else with c channels.
TestImage(ndim, h, w, c, k) ==
    [shape |-> IF ndim = 2 THEN <<h, w>> ELSE <<h, w, c>>,
     px |-> [p \in Grid(h, w) |-> SubSeq(ColorAt(k, p, w), 1, c)]]

Dims == 1..MaxDim

Patterns == 1..NumPatterns

\* Images colorizer is specified for: one channel (2-D or h x w x 1) or three.
ValidImages ==
    {TestImage(2, h, w, 1, k) : h \in Dims, w \in Dims, k \in Patterns}
    \cup {TestImage(3, h, w, 3, k) : h \in Dims, w \in Dims, k \in Patterns}
    \cup {TestImage(3, h, w, 1, k) : h \in Dims, w \in Dims, k \in Patterns}

\* Images outside the data model: 0, 2 or 4 channels, or no area.
InvalidImages ==
    {TestImage(3, h, w, c, 1) : h \in Dims, w \in Dims, c \in {0, 2}}
    \cup {TestImage(3, h, w, 4, k) : h \in Dims, w \in Dims, k \in Patterns}
    \cup {TestImage(2, 0, 0, 1, 1), TestImage(3, 0, 0, 3, 1),
          TestImage(2, 0, MaxDim, 1, 1), TestImage(3, MaxDim, 0, 3, 1)}

Images == ValidImages \cup InvalidImages

\* ---------------------------------------------------------------- state
\* More bounds: the latest second of the clock, and how many uploads get as
\* far as saving their file.
MaxClock == 1

MaxUploads == 2

\* How many times a caller calls colorizer on the image it holds.
MaxCalls == 2

Clients == {"browser"}

Emails == {"ann@x", "bob@x"}

NoUser == 0

VARIABLES
    net_loaded,     \* net is not None: the model was loaded at startup
    net_weights,    \* the loaded model (the stand-in predictor)
    net_input,      \* the blob the network holds (module state of net)
    users,          \* table users
    user_images,    \* table user_images
    files,          \* the files under static/uploads
    session,        \* per client, the user_id of its session cookie, or NoUser
    clock,          \* datetime.now(), in seconds
    saved,          \* how many uploads have saved their file
    last,           \* the last request handled and what it did
    img,            \* the image a direct caller of colorizer holds
    call,           \* the last call of colorizer: its argument and Result
    first           \* the number of calls on img since the caller got it, and the
                    \* outcome of the first of them

vars ==
    <<net_loaded, net_weights, net_input, users, user_images, files, session, clock,
      saved, last, img, call, first>>

netVars == <<net_loaded, net_weights>>

webVars == <<users, user_images, files, session, clock, saved, last>>

NoCall == [arg |-> NoArray, res |-> Result(NoExc, <<>>, NoBlob, NoArray, NoArray, NoArray, NoArray)]


NoRequest == [handler |-> "none", client |-> "none", steps |-> <<>>, flash |-> "none"]

\* What the caller of colorizer sees: the exception, or the returned image.
Outcome(res) == [exc |-> res.exc, out |-> res.out]

\* No call yet on the image the caller holds.
Unset == [calls |-> 0, exc |-> NoExc, out |-> NoArray]

\* Startup: the model loads (with some weights) or fails to load and net is
\* None; the tables are empty (CREATE TABLE IF NOT EXISTS on a new database).
Init ==
    /\ net_loaded \in BOOLEAN
    /\ net_weights \in IF net_loaded THEN Weights ELSE {"none"}
    /\ net_input = NoBlob
    /\ users = {}
    /\ user_images = {}
    /\ files = {}
    /\ session = [c \in Clients |-> NoUser]
    /\ clock = 0
    /\ saved = 0
    /\ last = NoRequest
    /\ img = NoArray
    /\ call = NoCall
    /\ first = Unset

\* ------------------------------------------------ direct calls of colorizer
\* A caller gets hold of an image.
LoadImage(i) ==
    /\ img' = i
    /\ call' = NoCall
    /\ first' = Unset
    /\ UNCHANGED <<netVars, net_input, webVars>>

\* The caller calls colorizer(img).
CallColorizer ==
    /\ img # NoArray
    /\ first.calls < MaxCalls
    /\ LET res == colorizer(img, TheNet(net_loaded, net_weights, net_input))
       IN  /\ call' = [arg |-> img, res |-> res]
           /\ net_input' = res.input
           /\ first' = IF first.calls = 0
                        THEN [calls |-> 1, exc |-> res.exc, out |-> res.out]
                        ELSE [first EXCEPT !.calls = first.calls + 1]
    /\ UNCHANGED <<netVars, webVars, img>>

NextColorizer ==
    \/ \E i \in Images : LoadImage(i)
    \/ CallColorizer

SpecColorizer == Init /\ [][NextColorizer]_vars

\* ------------------------------------------------------------- the tables
\* database.get_user_by_email(email): the row, or None.
UsersByEmail(email) == {u \in users : u.email = email}

\* A variant of get_user_image whose query leaves out AND user_id = ?.
get_any_image(image_id, user_id) == {r \in user_images : r.id = image_id}

\* database.get_user_image(image_id, user_id): SELECT ... WHERE id = ? AND
\* user_id = ?; the rows found (at most one, id is the primary key).
get_user_image(image_id, user_id) ==
    {r \in user_images : r.id = image_id /\ r.user_id = user_id}

\* database.delete_user_image(image_id): DELETE ... WHERE id = ?
delete_user_image(image_id) == {r \in user_images : r.id # image_id}

\* database.create_user_image(...): INSERT of one row.
create_user_image(image_id, user_id, filename, original, colorized) ==
    user_images \cup
        {[id |-> image_id, user_id |-> user_id, original_filename |-> filename,
          original_image_path |-> original, colorized_image_path |-> colorized,
          created_at |-> clock]}

\* hash_password(password): the SHA-256 digest, one per password.
hash_password(password) == <<"sha256", password>>

Passwords == {"secret1", "wrong12", "short"}

PasswordLen(password) == IF password = "short" THEN 5 ELSE 7

\* The least length signup accepts.
MinPassword == 6

\* str(uuid.uuid4()) in signup: an id no other user has. Emails are unique
\* in users, so the position of the email among Emails serves as the id.
NewUserId(email) == IF email = "ann@x" THEN 1 ELSE 2

\* ------------------------------------------------------------ the requests
Request(handler, c, steps, flash) ==
    [handler |-> handler, client |-> c, steps |-> steps, flash |-> flash]

colorizerVars == <<img, call, first>>

\* POST /signup
Signup(c, email, password, confirm) ==
    /\ IF password # confirm
       THEN /\ last' = Request("signup", c, <<>>, "Passwords do not match.")
            /\ UNCHANGED users
       ELSE IF PasswordLen(password) < MinPassword
       THEN /\ last' = Request("signup", c, <<>>, "Password must be at least 6 characters long.")
            /\ UNCHANGED users
       ELSE IF UsersByEmail(email) # {}
       THEN /\ last' = Request("signup", c, <<"get_user_by_email">>,
                               "Email already registered. Please log in.")
            /\ UNCHANGED users
       ELSE /\ users' = users \cup
                  {[id |-> NewUserId(email), email |-> email,
                    password_hash |-> hash_password(password), last_login |-> "NULL"]}
            /\ last' = Request("signup", c, <<"get_user_by_email", "create_user">>,
                               "Account created successfully! Please log in.")
    /\ UNCHANGED <<netVars, net_input, user_images, files, session, clock, saved, colorizerVars>>

\* POST /login
Login(c, email, password) ==
    /\ IF \E u \in UsersByEmail(email) : u.password_hash = hash_password(password)
       THEN LET u == CHOOSE v \in UsersByEmail(email) : TRUE
            IN  /\ session' = [session EXCEPT ![c] = u.id]
                /\ users' = (users \ {u}) \cup {[u EXCEPT !.last_login = "now"]}
                /\ last' = Request("login", c, <<"get_user_by_email", "update_user_last_login">>,
                                   "Welcome back!")
       ELSE /\ last' = Request("login", c, <<"get_user_by_email">>, "Invalid email or password.")
            /\ UNCHANGED <<session, users>>
    /\ UNCHANGED <<netVars, net_input, user_images, files, clock, saved, colorizerVars>>

\* GET /logout
Logout(c) ==
    /\ session' = [session EXCEPT ![c] = NoUser]
    /\ last' = Request("logout", c, <<>>, "You have been logged out.")
    /\ UNCHANGED <<netVars, net_input, users, user_images, files, clock, saved, colorizerVars>>

\* login_required: a request without user_id in its session is redirected
\* to the login page and the handler does not run.
LoggedIn(c) == session[c] # NoUser

Rejected(handler, c) ==
    /\ last' = Request(handler, c, <<>>, "Please log in to access this page.")
    /\ UNCHANGED <<netVars, net_input, users, user_images, files, session, clock, saved,
                   colorizerVars>>

\* ------------------------------------------------------------------ upload
\* An uploaded file name: its stem and its extension; NoFile when the form
\* has no 'file' part.
NoFile == [stem |-> "", ext |-> "<missing>"]

Filenames ==
    {[stem |-> "", ext |-> ""], [stem |-> "notes", ext |-> ".txt"],
     [stem |-> "A", ext |-> ".JPG"]}

\* str.lower() of an extension.
Lower(ext) == IF ext = ".JPG" THEN ".jpg" ELSE ext

\* file.filename.lower().endswith(('.png', '.jpg', '.jpeg', '.bmp', '.tiff'))
HasImageExtension(f) == Lower(f.ext) \in {".png", ".jpg", ".jpeg", ".bmp", ".tiff"}

\* What an uploaded file holds: bytes no decoder reads, or an encoded image.
Garbage == [shape |-> <<>>, px |-> <<>>]

Contents == {Garbage, TestImage(2, 1, 2, 1, 1)}

\* cv2.imread(filepath): None for a file it cannot decode, else the image as
\* 3-channel BGR (a gray file is replicated, an alpha channel is dropped).
Imread(content) ==
    IF content = Garbage
    THEN Raised
    ELSE Ok([shape |-> <<Height(content), Width(content), 3>>,
             px |-> [p \in Grid(Height(content), Width(content)) |->
                        IF Channels(content) = 1
                        THEN <<content.px[p][1], content.px[p][1], content.px[p][1]>>
                        ELSE SubSeq(content.px[p], 1, 3)]])

\* f"{session['user_id']}_{timestamp}_{file.filename}" under the upload
\* folder, and the same with the colorized_ prefix.
OriginalPath(user_id, timestamp, f) == <<"uploads", "", user_id, timestamp, f>>

ColorizedPath(user_id, timestamp, f) == <<"uploads", "colorized_", user_id, timestamp, f>>

\* cv2.cvtColor(colorized, cv2.COLOR_RGB2BGR): needs a non-empty source with
\* 3 or 4 channels, else it raises; swaps the first and third channel.
RGB2BGR(a) ==
    IF Len(a.shape) < 2 \/ Empty(a) \/ Channels(a) \notin {3, 4}
    THEN Raised
    ELSE Ok([shape |-> a.shape,
             px |-> [p \in Grid(Height(a), Width(a)) |->
                        <<a.px[p][3], a.px[p][2], a.px[p][1]>>]])

\* A variant of RecordedRows that inserts the row whether or not the steps
\* before it raised: create_user_image placed ahead of the processing.
RecordedAlways(done, image_id, user_id, f, original, colorized) ==
    create_user_image(image_id, user_id, f, original, colorized)

\* The rows of user_images after the try block: db.create_user_image is its
\* last statement, reached only when nothing before it raised (done).
RecordedRows(done, image_id, user_id, f, original, colorized) ==
    IF done
    THEN create_user_image(image_id, user_id, f, original, colorized)
    ELSE user_images

\* A variant of ModelAvailable for an upload without the check.
ModelAssumed(loaded) == TRUE

\* if not net: the module-level check of upload.
ModelAvailable(loaded) == loaded

\* The try block of upload: save the file, read it, colorize, write the
\* result, record it. An exception at any step ends the block; upload's
\* except clause catches it and flashes the error.
UploadTry(c, f, content) ==
    LET user_id   == session[c]
        original  == OriginalPath(user_id, clock, f)
        colorized == ColorizedPath(user_id, clock, f)
        image     == Imread(content)
        res       == colorizer(image.val, TheNet(net_loaded, net_weights, net_input))
        bgr       == RGB2BGR(res.out)
        returned  == image.ok /\ res.exc = NoExc
        done      == returned /\ bgr.ok
        steps     == <<"save", "getsize", "imread">>
                     \o (IF image.ok THEN <<"colorizer">> ELSE <<>>)
                     \o (IF returned THEN <<"imwrite">> ELSE <<>>)
                     \o (IF done THEN <<"create_user_image">> ELSE <<>>)
    IN  /\ files' = files \cup {original} \cup (IF done THEN {colorized} ELSE {})
        /\ saved' = saved + 1
        /\ user_images' = RecordedRows(done, saved + 1, user_id, f, original, colorized)
        /\ last' = Request("upload", c, steps,
                           IF done THEN "Image colorized successfully!"
                           ELSE "An error occurred while processing your image.")
        /\ net_input' = IF image.ok THEN res.input ELSE net_input
        /\ call' = IF image.ok THEN [arg |-> image.val, res |-> res] ELSE call

\* POST /upload
Upload(c, f, content) ==
    /\ saved < MaxUploads
    /\ IF ~LoggedIn(c) THEN Rejected("upload", c)
       ELSE IF f = NoFile \/ (f.stem = "" /\ f.ext = "")
       THEN /\ last' = Request("upload", c, <<>>, "No file selected.")
            /\ UNCHANGED <<netVars, net_input, users, user_images, files, session, clock,
                           saved, colorizerVars>>
       ELSE IF ~HasImageExtension(f)
       THEN /\ last' = Request("upload", c, <<>>, "Invalid file type. Please upload an image.")
            /\ UNCHANGED <<netVars, net_input, users, user_images, files, session, clock,
                           saved, colorizerVars>>
       ELSE IF ~ModelAvailable(net_loaded)
       THEN /\ last' = Request("upload", c, <<>>, "Colorization model not available.")
            /\ UNCHANGED <<netVars, net_input, users, user_images, files, session, clock,
                           saved, colorizerVars>>
       ELSE /\ UploadTry(c, f, content)
            /\ UNCHANGED <<netVars, users, session, clock, img, first>>

\* ------------------------------------------------------------------ delete
\* POST /delete/<image_id>
Delete(c, image_id) ==
    IF ~LoggedIn(c) THEN Rejected("delete_image", c)
    ELSE LET found == get_user_image(image_id, session[c])
         IN  /\ IF found # {}
                THEN LET image == CHOOSE r \in found : TRUE
                     IN  /\ files' = files \ {image.original_image_path,
                                              image.colorized_image_path}
                         /\ user_images' = delete_user_image(image_id)
                         /\ last' = Request("delete_image", c,
                                            <<"get_user_image", "remove", "delete_user_image">>,
                                            "Image deleted successfully.")
                ELSE /\ last' = Request("delete_image", c, <<"get_user_image">>,
                                        "Image not found.")
                     /\ UNCHANGED <<files, user_images>>
             /\ UNCHANGED <<netVars, net_input, users, session, clock, saved, colorizerVars>>

\* A second passes.
Tick ==
    /\ clock < MaxClock
    /\ clock' = clock + 1
    /\ UNCHANGED <<netVars, net_input, users, user_images, files, session, saved, last,
                   colorizerVars>>

Next ==
    \/ \E c \in Clients, e \in Emails, p \in {"secret1", "short"}, q \in {"secret1", "short"} :
          Signup(c, e, p, q)
    \/ \E c \in Clients, e \in Emails, p \in {"secret1", "wrong12"} : Login(c, e, p)
    \/ \E c \in Clients : Logout(c)
    \/ \E c \in Clients, f \in Filenames \cup {NoFile}, content \in Contents :
          Upload(c, f, content)
    \/ \E c \in Clients, i \in 1..MaxUploads : Delete(c, i)
    \/ Tick

Spec == Init /\ [][Next]_vars

\* ================================================================== claims
\* A call of colorizer is on record.
Called == call.res.steps # <<>>

\* The call on record returned an image.
Returned == Called /\ call.res.exc = NoExc

\* The network is loaded and its forward() works.
PredictorWorks == net_loaded /\ net_weights # "raises"

\* The gray level of pixel p of the 8-bit image a.
GrayAt(a, p) == IF Len(a.shape) = 3 THEN GrayOf(a.px[p]) ELSE a.px[p][1]

\* The 3-channel broadcast [g, g, g] of a single-channel image g.
Broadcast(g) ==
    [shape |-> <<Height(g), Width(g), 3>>,
     px |-> [p \in Grid(Height(g), Width(g)) |-> <<g.px[p][1], g.px[p][1], g.px[p][1]>>]]

\* C1: for every image with height >= 1, width >= 1 and 1 or 3 channels,
\* colorizer (with a working predictor) returns an image of the same height
\* and width with 3 channels.
C1_ShapeInvariant ==
    (Called /\ PredictorWorks /\ ~Empty(call.arg) /\ Channels(call.arg) \in {1, 3})
        => /\ call.res.exc = NoExc
           /\ call.res.out.shape = <<Height(call.arg), Width(call.arg), 3>>

\* C2: an image with no area, no channels or a channel count other than 1
\* and 3 makes colorizer fail at the start, before the tensor is prepared
\* (resize, split, shift) and before the network is touched.
C2_DegenerateRejected ==
    (Called /\ (Empty(call.arg) \/ Channels(call.arg) \notin {1, 3}))
        => /\ call.res.exc # NoExc
           /\ \A i \in 1..Len(call.res.steps) :
                 call.res.steps[i] \notin {"resize", "split", "shift", "setInput", "forward"}

\* C5: colorizing a single-channel image g and colorizing its 3-channel
\* broadcast [g, g, g] give the same outcome, under the same (working)
\* network.
C5_GrayscaleEquivalence ==
    (Called /\ PredictorWorks /\ ~Empty(call.arg) /\ Channels(call.arg) = 1)
        => Outcome(call.res)
             = Outcome(colorizer(Broadcast(call.arg),
                                 TheNet(net_loaded, net_weights, net_input)))

\* C6: every later call of colorizer on the image the caller holds gives the
\* outcome of the first one, whatever blob the network held from calls on
\* other images; the caller's image is the one it passed.
C6_Determinism ==
    first.calls >= 1
        => /\ call.arg = img
           /\ call.res.exc = first.exc
           /\ call.res.out = first.out

C6_RepeatedCall ==
    /\ first.calls >= 2
    /\ Returned
    /\ net_weights = "follow"
    /\ call.arg.shape = <<2, 2>>

\* C7 as stated: every output element is 255 * clamp(v, 0, 1) rounded to the
\* nearest integer, v being the converted RGB element.
C7_RoundsToNearest ==
    Returned =>
        \A p \in Grid(Height(call.res.out), Width(call.res.out)) : \A c \in 1..3 :
            LET v  == call.res.rgbf.px[p][c]
                cv == IF v < 0 THEN 0 ELSE IF v > Unit THEN Unit ELSE v
            IN  call.res.out.px[p][c] = (2 * MaxByte * cv + Unit) \div (2 * Unit)

\* C7 as amended: every output element o is an integer in [0, 255]; it is 0
\* for v <= 0, 255 for v >= 1, and otherwise 255 * v with the fraction
\* dropped (o <= 255 v < o + 1).
C7_TruncatesToByte ==
    Returned =>
        /\ call.res.out.shape = call.res.rgbf.shape
        /\ \A p \in Grid(Height(call.res.out), Width(call.res.out)) : \A c \in 1..3 :
              LET v == call.res.rgbf.px[p][c]
                  o == call.res.out.px[p][c]
              IN  /\ o \in 0..MaxByte
                  /\ v <= 0 => o = 0
                  /\ v >= Unit => o = MaxByte
                  /\ (0 < v /\ v < Unit) => (o * Unit <= MaxByte * v /\ MaxByte * v < (o + 1) * Unit)

C7_ClampedAndTruncated ==
    /\ Returned
    /\ \E p \in Grid(Height(call.res.out), Width(call.res.out)) : \E c \in 1..3 :
          call.res.rgbf.px[p][c] < 0
    /\ \E p \in Grid(Height(call.res.out), Width(call.res.out)) : \E c \in 1..3 :
          call.res.rgbf.px[p][c] > Unit
    /\ \E p \in Grid(Height(call.res.out), Width(call.res.out)) : \E c \in 1..3 :
          LET v == call.res.rgbf.px[p][c]
          IN  0 < v /\ v < Unit /\ 2 * ((MaxByte * v) % Unit) >= Unit

\* C8: the L channel merged into the output is the L of the full-resolution
\* LAB image of the input (height x width, the CIE L of each pixel's gray),
\* while the tensor handed to the network is that L shifted by -50.
C8_MergeUsesOriginalL ==
    Returned =>
        /\ call.res.merged.shape = <<Height(call.arg), Width(call.arg), 3>>
        /\ \A p \in Grid(Height(call.arg), Width(call.arg)) :
              /\ call.res.merged.px[p][1] = call.res.lab.px[p][1]
              /\ call.res.lab.px[p][1] = LTable[GrayAt(call.arg, p) + 1]
        /\ call.res.input[<<1, 1>>] = call.res.lab.px[<<1, 1>>][1] - MeanShift

C8_MergedFullResolution ==
    /\ Returned
    /\ call.arg.shape = <<2, 2, 3>>
    /\ call.res.merged.px[<<1, 1>>][1] # call.res.merged.px[<<2, 2>>][1]
    /\ call.res.merged.px[<<1, 1>>][1] = call.res.input[<<1, 1>>] + MeanShift

\* The step is among the steps entered.
Reached(step, steps) == \E i \in 1..Len(steps) : steps[i] = step

\* The call on record ended in the network's forward().
PredictorRaised(cl) == cl.res.steps # <<>> /\ cl.res.steps[Len(cl.res.steps)] = "forward"

UploadFailed == "An error occurred while processing your image."

C4_ModelUnavailableFailsFast ==
    [][(~net_loaded /\ last'.handler = "upload")
          => /\ last'.steps = <<>>
             /\ last'.flash # UploadFailed
             /\ files' = files
             /\ user_images' = user_images
             /\ users' = users
             /\ call' = call
             /\ net_input' = net_input
             /\ saved' = saved]_vars

C4_ModelUnavailableUpload ==
    /\ ~net_loaded
    /\ last.handler = "upload"
    /\ last.flash = "Colorization model not available."
    /\ LoggedIn(last.client)
    /\ files = {}
    /\ user_images = {}

\* C9: a record leaves user_images, and a file leaves the upload folder,
\* only in a delete_image request of the user who owns it; a delete_image
\* request that finds no record of its user under the id changes neither.
C9_DeleteOnlyOwnImages ==
    [][/\ \A r \in user_images \ user_images' :
             /\ last'.handler = "delete_image"
             /\ LoggedIn(last'.client)
             /\ r.user_id = session[last'.client]
             /\ r.original_image_path \notin files'
             /\ r.colorized_image_path \notin files'
       /\ \A path \in files \ files' :
             /\ last'.handler = "delete_image"
             /\ path[3] = session[last'.client]
       /\ (last'.handler = "delete_image" /\ last'.flash # "Image deleted successfully.")
             => (files' = files /\ user_images' = user_images)]_vars

C9_OtherUsersImageKept ==
    /\ last.handler = "delete_image"
    /\ last.flash = "Image not found."
    /\ LoggedIn(last.client)
    /\ Cardinality(user_images) = MaxUploads
    /\ \A r \in user_images : r.user_id # session[last.client] /\ r.original_image_path \in files

\* C10: a record enters user_images only in an upload whose colorizer call
\* returned an image (and after it: create_user_image is the last step); an
\* upload that flashes the processing error leaves user_images as it was.
C10_RecordOnlyAfterColorizer ==
    [][/\ (user_images' \ user_images # {})
             => /\ last'.handler = "upload"
                /\ last'.steps = <<"save", "getsize", "imread", "colorizer", "imwrite",
                                   "create_user_image">>
                /\ call'.res.exc = NoExc
                /\ call'.res.out.shape = <<Height(call'.arg), Width(call'.arg), 3>>
                /\ Cardinality(user_images' \ user_images) = 1
       /\ (last'.handler = "upload" /\ last'.flash = UploadFailed)
             => user_images' = user_images]_vars

C10_UnreadableUploadNoRecord ==
    /\ last.handler = "upload"
    /\ last.flash = UploadFailed
    /\ last.steps = <<"save", "getsize", "imread">>
    /\ user_images = {}
    /\ files # {}
====
